---- MODULE Spec2Model ----
(***************************************************************************)
(* MIDI over TCP/IP (mido.sockets): the address parser, the socket port    *)
(* (SocketPort) and the port server (PortServer).                          *)
(***************************************************************************)
EXTENDS Integers, Sequences, FiniteSets, TLC

(***************************************************************************)
(* Bounds of the model.                                                    *)
(***************************************************************************)
\* longest address string handed to parse_address
MaxAddrLen == 6
\* connections a run opens
MaxConns == 2
\* messages (or lines) sent in a run, all connections and both ends together
MaxMsgs == 2

(***************************************************************************)
(* State.                                                                  *)
(***************************************************************************)
VARIABLES
    address,      \* the argument of parse_address, a sequence of characters
    addrResult,   \* what parse_address did with it
    peer,         \* per connection: the remote end, and the messages it sent
    pipe,         \* per connection: bytes the remote end wrote, still on their way
    sock,         \* per connection: bytes that arrived, and a pending socket error
    outbox,       \* per connection: bytes the port handed to the connection
    backlog,      \* connections waiting at the listening socket, oldest first
    port,         \* per connection: the SocketPort wrapping it
    ports,        \* PortServer.ports
    sweep,        \* the list object the running sweep iterates
    pc,           \* where the generator of PortServer.__iter__ stands
    idx,          \* position of the sweep in its list
    left,         \* messages the current port's iter_pending still yields
    ctl,          \* who runs: the application ("app") or the generator ("gen")
    blockedIn,    \* the call the one thread of control is waiting in, if any
    appPorts,     \* ports a direct accept() call returned to the application
    yielded,      \* history: the (port, message) pairs the iteration yielded
    portSent,     \* history: per connection, the messages handed to send()
    closedBy,     \* history: what closed each port
    lastCall,     \* history: the last call made and how it ended
    ioOnClosed,   \* history: an I/O call was made on a closed port's connection
    decoded,      \* history: per connection, the messages in the order decoded
    owed,         \* history: per connection, the complete messages that had
                  \* arrived when the last sweep began and are not yielded yet
    sweepEof,     \* history: the ports of the last sweep, accepted in an
                  \* earlier cycle, whose remote end had visibly closed when
                  \* the sweep began
    server,       \* the PortServer: its listening socket is open, its with-block
                  \* was left, and (history) it accepted a connection after that
    sweepFrom,    \* history: how many messages had been yielded when the last
                  \* sweep began
    cycleLog,     \* history: the steps the last cycle of the iteration took,
                  \* in the order taken
    closedSincePrune  \* history: the ports of the live-port collection that
                  \* were closed after the last prune

addrVars == <<address, addrResult>>
netVars == <<peer, pipe, sock, backlog>>
srvVars == <<ports, sweep, pc, idx, left>>
histVars == <<yielded, portSent, closedBy, lastCall, ioOnClosed, decoded, owed,
             sweepEof, closedSincePrune, sweepFrom, cycleLog>>

vars == <<address, addrResult, peer, pipe, sock, outbox, backlog, port, ports,
          sweep, pc, idx, left, ctl, blockedIn, appPorts, yielded, portSent,
          closedBy, lastCall, ioOnClosed, decoded, owed, sweepEof,
          closedSincePrune, server, sweepFrom, cycleLog>>

Conns == 1..MaxConns

(***************************************************************************)
(* parse_address (sockets.py 166-186).                                     *)
(***************************************************************************)
\* the characters address strings are drawn from
AddrChars == {":", "0", "3", "5", "6", "-", " "}

Digits == {"0", "1", "2", "3", "4", "5", "6", "7", "8", "9"}

DigitVal(c) ==
    CASE c = "0" -> 0 [] c = "1" -> 1 [] c = "2" -> 2 [] c = "3" -> 3
      [] c = "4" -> 4 [] c = "5" -> 5 [] c = "6" -> 6 [] c = "7" -> 7
      [] c = "8" -> 8 [] c = "9" -> 9

\* str.split(':'): the pieces between the colons, always one more than colons
RECURSIVE SplitColon(_, _)
SplitColon(s, cur) ==
    IF s = <<>> THEN <<cur>>
    ELSE IF Head(s) = ":" THEN <<cur>> \o SplitColon(Tail(s), <<>>)
    ELSE SplitColon(Tail(s), Append(cur, Head(s)))

\* str.strip() as int() applies it: leading and trailing blanks removed
RECURSIVE LStrip(_)
LStrip(s) == IF s # <<>> /\ Head(s) = " " THEN LStrip(Tail(s)) ELSE s

RECURSIVE RStrip(_)
RStrip(s) ==
    IF s # <<>> /\ s[Len(s)] = " " THEN RStrip(SubSeq(s, 1, Len(s) - 1)) ELSE s

\* the value of a string of decimal digits, most significant first
RECURSIVE DecimalValue(_, _)
DecimalValue(s, acc) ==
    IF s = <<>> THEN acc ELSE DecimalValue(Tail(s), 10 * acc + DigitVal(Head(s)))

\* int(port): blanks stripped, an optional sign, then one or more digits;
\* anything else raises ValueError
PyInt(s) ==
    LET t == RStrip(LStrip(s))
        signed == t # <<>> /\ Head(t) \in {"-", "+"}
        body == IF signed THEN Tail(t) ELSE t
    IN  IF body = <<>> \/ \E i \in 1..Len(body) : body[i] \notin Digits
        THEN [ok |-> FALSE, val |-> 0]
        ELSE [ok |-> TRUE,
              val |-> IF signed /\ Head(t) = "-"
                      THEN 0 - DecimalValue(body, 0)
                      ELSE DecimalValue(body, 0)]

NoResult == [tag |-> "none", host |-> <<>>, port |-> 0]
ValueError == [tag |-> "ValueError", host |-> <<>>, port |-> 0]

\* a range test that lets port 0 through
PortInRange_AllowZero(portno) == 0 <= portno /\ portno < 2^16

\* the range test of line 183
PortInRange(portno) == 0 < portno /\ portno < 2^16

parse_address(addr) ==
    LET words == SplitColon(addr, <<>>) IN
    IF Len(words) # 2 THEN ValueError
    ELSE LET n == PyInt(words[2]) IN
         IF ~n.ok THEN ValueError
         ELSE IF ~PortInRange(n.val) THEN ValueError
         ELSE [tag |-> "ok", host |-> words[1], port |-> n.val]

(***************************************************************************)
(* Messages and their two wire encodings.  The message model, its encoders *)
(* (Message.bin, str(message)), the byte parser (Parser.feed_byte) and the *)
(* string decoder (parse_string) are collaborators of sockets.py.          *)
(***************************************************************************)
\* a message is the sequence of its MIDI bytes: note_on, program_change, clock
NoteOn == <<144, 60, 64>>
ProgramChange == <<192, 5>>
Clock == <<248>>
AllMsgs == {NoteOn, ProgramChange, Clock}
\* the k-th message client c of a server sends: each client alternates a
\* two-byte message and a one-byte message, odd clients starting with the
\* first and even clients with the second
ClientMsg(c, k) == IF (c + k) % 2 = 0 THEN ProgramChange ELSE Clock

\* message.bin(): the raw MIDI bytes
Bin(m) == m

NewLine == <<10>>

\* '{}'.format(message): the text form, here "no", "pc" and "c" in ASCII
StrOf(m) ==
    CASE m = NoteOn -> <<110, 111>>
      [] m = ProgramChange -> <<112, 99>>
      [] m = Clock -> <<99>>

\* a line no message has as its text form: "?"
GarbageLine == <<63>>

\* what parse_string returns for a line it rejects (it raises)
ParseFail == <<>>

\* parse_string(line): the terminator dropped, then the message with that text
parse_string(line) ==
    LET text == IF line # <<>> /\ line[Len(line)] = 10
                THEN SubSeq(line, 1, Len(line) - 1) ELSE line
    IN  IF \E m \in AllMsgs : StrOf(m) = text
        THEN CHOOSE m \in AllMsgs : StrOf(m) = text
        ELSE ParseFail

\* number of data bytes that follow a status byte
DataLen(status) ==
    IF status \in 192..223 THEN 1
    ELSE IF status \in 128..239 THEN 2
    ELSE 0

\* Parser.feed_byte on the parser fields of a port: status bytes open a
\* message, data bytes fill it, a filled message joins the queue
feed_byte(p, byte) ==
    IF byte >= 128
    THEN IF DataLen(byte) = 0
         THEN [p EXCEPT !.messages = Append(@, <<byte>>)]
         ELSE [p EXCEPT !.status = byte, !.data = <<>>]
    ELSE IF p.status = 0 THEN p
    ELSE IF Len(p.data) + 1 = DataLen(p.status)
         THEN [p EXCEPT !.messages = Append(@, <<p.status>> \o Append(p.data, byte)),
                        !.status = 0, !.data = <<>>]
         ELSE [p EXCEPT !.data = Append(@, byte)]

(***************************************************************************)
(* SocketPort (sockets.py 90-156).  A port record holds the fields of one  *)
(* SocketPort; a connection record holds what its socket can deliver.      *)
(***************************************************************************)
NoPort ==
    [exists |-> FALSE, closed |-> FALSE, string_protocol |-> FALSE,
     status |-> 0, data |-> <<>>, messages |-> <<>>, rbuf |-> <<>>,
     wbuf |-> <<>>, blocked |-> FALSE]

\* a constructor that leaves the new port closed
NewPort_Closed(string_protocol) ==
    [exists |-> TRUE, closed |-> TRUE, string_protocol |-> string_protocol,
     status |-> 0, data |-> <<>>, messages |-> <<>>, rbuf |-> <<>>,
     wbuf |-> <<>>, blocked |-> FALSE]

\* SocketPort.__init__: closed is False, a fresh parser and queue, the file
\* buffered in text mode and unbuffered in binary mode
NewPort(string_protocol) ==
    [exists |-> TRUE, closed |-> FALSE, string_protocol |-> string_protocol,
     status |-> 0, data |-> <<>>, messages |-> <<>>, rbuf |-> <<>>,
     wbuf |-> <<>>, blocked |-> FALSE]

\* what a call on a port hands back to the step that made it
Outcome(p, s, raised, badio, fault, rejected) ==
    [port |-> p, sock |-> s, raised |-> raised, badio |-> badio,
     fault |-> fault, rejected |-> rejected]

\* _is_readable: select with timeout 0 on the socket's descriptor; bytes that
\* arrived, an end of stream or a pending error make it readable
IsReadable(s, eof) == s.avail # <<>> \/ eof \/ s.err

\* a close that also empties the queue of decoded messages
ClosePort_DropQueue(p) == [p EXCEPT !.closed = TRUE, !.messages = <<>>]

\* SocketPort._close and the closed flag set by close()
ClosePort(p) == [p EXCEPT !.closed = TRUE]

\* file.read(1) on the unbuffered file: one recv of one byte
Read1(s, eof) ==
    IF s.err THEN [kind |-> "error", byte |-> 0, sock |-> s]
    ELSE IF s.avail # <<>>
         THEN [kind |-> "byte", byte |-> Head(s.avail),
               sock |-> [s EXCEPT !.avail = Tail(@)]]
    ELSE [kind |-> "eof", byte |-> 0, sock |-> s]

NewLineAt(buf) ==
    IF \E i \in 1..Len(buf) : buf[i] = 10
    THEN CHOOSE i \in 1..Len(buf) : buf[i] = 10 /\ \A j \in 1..(i - 1) : buf[j] # 10
    ELSE 0

\* file.readline() on the buffered file: a line already in the read buffer is
\* returned without a recv; otherwise recv takes everything that arrived into
\* the buffer, and the call waits for more until a newline or the end of stream
ReadLine(p, s, eof) ==
    IF NewLineAt(p.rbuf) > 0
    THEN [kind |-> "line", line |-> SubSeq(p.rbuf, 1, NewLineAt(p.rbuf)),
          rbuf |-> SubSeq(p.rbuf, NewLineAt(p.rbuf) + 1, Len(p.rbuf)), sock |-> s]
    ELSE IF s.err THEN [kind |-> "error", line |-> <<>>, rbuf |-> p.rbuf, sock |-> s]
    ELSE LET buf == p.rbuf \o s.avail
             s2 == [s EXCEPT !.avail = <<>>]
         IN  IF NewLineAt(buf) > 0
             THEN [kind |-> "line", line |-> SubSeq(buf, 1, NewLineAt(buf)),
                   rbuf |-> SubSeq(buf, NewLineAt(buf) + 1, Len(buf)), sock |-> s2]
             ELSE IF eof
                  THEN [kind |-> "line", line |-> buf, rbuf |-> <<>>, sock |-> s2]
                  ELSE [kind |-> "blocked", line |-> <<>>, rbuf |-> buf, sock |-> s2]

RECURSIVE PendingLoop(_, _, _, _)

\* the parser a pump step starts with is rebuilt on every call
PendingEntry_FreshParser(p) == [p EXCEPT !.status = 0, !.data = <<>>]

\* the parser and queue made once in __init__ (94-95) carry over between calls
PendingEntry(p) == p

\* after close() the loop goes round again
AfterClose_NoBreak(p, s, eof, fault) == PendingLoop(p, s, eof, fault)

\* the break after self.close() (129, 139, 143)
AfterClose(p, s, eof, fault) == Outcome(p, s, "none", FALSE, fault, FALSE)

\* a read error in text mode handled like the binary one
TextReadError_Absorbed(p, s, eof) == AfterClose(ClosePort(p), s, eof, "error")

\* readline raising socket.error: nothing around line 125 catches it
TextReadError(p, s, eof) == Outcome(p, s, "socket.error", FALSE, "error", FALSE)

\* a rejected line swallowed and the port closed
DecodeFailure_Absorbed(p, s, eof) == Outcome(ClosePort(p), s, "none", FALSE, "none", TRUE)

\* parse_string raising on line 131: the exception leaves _pending
DecodeFailure(p, s, eof) == Outcome(p, s, "ParseError", FALSE, "none", TRUE)

\* one turn of the text branch (125-132)
TextStep(p, s, eof) ==
    LET r == ReadLine(p, s, eof)
        q == [p EXCEPT !.rbuf = r.rbuf, !.blocked = FALSE]
    IN  CASE r.kind = "error" -> TextReadError(p, r.sock, eof)
          [] r.kind = "blocked" ->
                Outcome([q EXCEPT !.blocked = TRUE], r.sock, "none", FALSE, "none", FALSE)
          [] r.kind = "line" /\ r.line = <<>> ->
                AfterClose(ClosePort(q), r.sock, eof, "eof")
          [] OTHER ->
                IF parse_string(r.line) = ParseFail
                THEN DecodeFailure(q, r.sock, eof)
                ELSE PendingLoop([q EXCEPT !.messages = Append(@, parse_string(r.line))],
                                 r.sock, eof, "none")

\* a binary branch that returns after the byte it read instead of looping
BinaryStep_OneByte(p, s, eof) ==
    LET r == Read1(s, eof) IN
    CASE r.kind = "error" -> AfterClose(ClosePort(p), r.sock, eof, "error")
      [] r.kind = "eof" -> AfterClose(ClosePort(p), r.sock, eof, "eof")
      [] OTHER -> Outcome(feed_byte(p, r.byte), r.sock, "none", FALSE, "none", FALSE)

\* one turn of the binary branch (134-145)
BinaryStep(p, s, eof) ==
    LET r == Read1(s, eof) IN
    CASE r.kind = "error" -> AfterClose(ClosePort(p), r.sock, eof, "error")
      [] r.kind = "eof" -> AfterClose(ClosePort(p), r.sock, eof, "eof")
      [] OTHER ->
            \* the port and the socket after this byte, then round the loop again
            CHOOSE o \in {PendingLoop(q, t, eof, "none") :
                              q \in {feed_byte(p, r.byte)}, t \in {r.sock}} : TRUE

\* the while loop of _pending (120-145); polling the descriptor of a closed
\* socket is an I/O attempt on a closed port and raises
PendingLoop(p, s, eof, fault) ==
    IF p.closed THEN Outcome(p, s, "socket.error", TRUE, fault, FALSE)
    ELSE IF ~IsReadable(s, eof) THEN Outcome(p, s, "none", FALSE, fault, FALSE)
    ELSE IF p.string_protocol THEN TextStep(p, s, eof)
    ELSE BinaryStep(p, s, eof)

\* SocketPort._pending; a call waiting inside readline goes on from there
_pending(p, s, eof) ==
    IF p.blocked THEN TextStep(PendingEntry(p), s, eof)
    ELSE PendingLoop(PendingEntry(p), s, eof, "none")

\* BaseInput.pending: a closed port is not pumped
pending(p, s, eof) ==
    IF p.closed THEN Outcome(p, s, "none", FALSE, "none", FALSE)
    ELSE _pending(p, s, eof)

(***************************************************************************)
(* The connections and the remote ends.                                    *)
(***************************************************************************)
\* PortServer.__init__ (26-37): the socket is bound and listens
NewServer == [socketOpen |-> TRUE, exited |-> FALSE, acceptedAfterExit |-> FALSE]

\* the server after accept() returned, with a port or without
AfterAccept(srv, gotPort) ==
    IF gotPort /\ srv.exited THEN [srv EXCEPT !.acceptedAfterExit = TRUE] ELSE srv

\* PortServer.__exit__ (86-88): returns False and touches nothing
ServerExit(srv) == [srv EXCEPT !.exited = TRUE]

NoCall ==
    [op |-> "none", conn |-> 0, raised |-> "none", wasClosed |-> FALSE,
     added |-> 0, fault |-> "none", rejected |-> FALSE, arg |-> "none",
     result |-> "none"]

InitNet ==
    /\ peer = [c \in Conns |-> [state |-> "idle", sent |-> <<>>]]
    /\ pipe = [c \in Conns |-> <<>>]
    /\ sock = [c \in Conns |-> [avail |-> <<>>, err |-> FALSE]]
    /\ outbox = [c \in Conns |-> <<>>]
    /\ backlog = <<>>

InitServer ==
    /\ port = [c \in Conns |-> NoPort]
    /\ ports = <<>>
    /\ sweep = <<>>
    /\ pc = "top"
    /\ idx = 0
    /\ left = 0
    /\ ctl = "app"
    /\ blockedIn = "none"
    /\ appPorts = {}
    /\ yielded = <<>>
    /\ portSent = [c \in Conns |-> <<>>]
    /\ closedBy = [c \in Conns |-> "none"]
    /\ lastCall = NoCall
    /\ ioOnClosed = FALSE
    /\ decoded = [c \in Conns |-> <<>>]
    /\ owed = [c \in Conns |-> 0]
    /\ sweepEof = {}
    /\ closedSincePrune = {}
    /\ sweepFrom = 0
    /\ cycleLog = <<>>
    /\ server = NewServer

RECURSIVE SentUpTo(_)
SentUpTo(c) ==
    IF c = 0 THEN 0 ELSE Len(peer[c].sent) + Len(portSent[c]) + SentUpTo(c - 1)

\* messages and lines sent so far, by the remote ends and by the ports
TotalSent == SentUpTo(MaxConns)

\* the reader sees the end of the stream once the remote end has closed and
\* everything it wrote has arrived
EofVisible(c) == peer[c].state = "closed" /\ pipe[c] = <<>>

\* the one thread of control is waiting inside accept() or readline()
ThreadBlocked == blockedIn # "none" \/ \E c \in Conns : port[c].blocked

\* the encoding _send writes (149, 151)
WireOf(string_protocol, m) ==
    IF string_protocol THEN StrOf(m) \o NewLine ELSE Bin(m)

\* a client connects to the listening socket (SocketPort.__init__ 99-101)
Connect(c) ==
    /\ peer[c].state = "idle"
    /\ \A d \in 1..(c - 1) : peer[d].state # "idle"
    /\ peer' = [peer EXCEPT ![c].state = "open"]
    /\ backlog' = Append(backlog, c)
    /\ UNCHANGED <<addrVars, server, pipe, sock, outbox, port, srvVars, ctl, blockedIn,
                   appPorts, histVars>>

\* the remote end sends one message in the connection's wire format
PeerSend(c, m) ==
    /\ peer[c].state = "open"
    /\ TotalSent < MaxMsgs
    /\ peer' = [peer EXCEPT ![c].sent = Append(@, m)]
    /\ pipe' = [pipe EXCEPT ![c] = @ \o WireOf(port[c].string_protocol, m)]
    /\ UNCHANGED <<addrVars, server, sock, outbox, backlog, port, srvVars, ctl,
                   blockedIn,
                   appPorts, histVars>>

\* the remote end of a text connection sends a line that is no message
PeerSendGarbage(c) ==
    /\ peer[c].state = "open"
    /\ port[c].string_protocol
    /\ TotalSent < MaxMsgs
    /\ peer' = [peer EXCEPT ![c].sent = Append(@, GarbageLine)]
    /\ pipe' = [pipe EXCEPT ![c] = @ \o GarbageLine \o NewLine]
    /\ UNCHANGED <<addrVars, server, sock, outbox, backlog, port, srvVars, ctl,
                   blockedIn,
                   appPorts, histVars>>

\* the next byte on its way arrives
Deliver(c) ==
    /\ pipe[c] # <<>>
    /\ ~sock[c].err
    /\ ~port[c].closed
    /\ pipe' = [pipe EXCEPT ![c] = Tail(@)]
    /\ sock' = [sock EXCEPT ![c].avail = Append(@, Head(pipe[c]))]
    /\ UNCHANGED <<addrVars, server, peer, outbox, backlog, port, srvVars, ctl,
                   blockedIn,
                   appPorts, histVars>>

\* the remote end closes its connection
PeerClose(c) ==
    /\ peer[c].state = "open"
    /\ peer' = [peer EXCEPT ![c].state = "closed"]
    /\ UNCHANGED <<addrVars, server, pipe, sock, outbox, backlog, port, srvVars, ctl,
                   blockedIn, appPorts, histVars>>

\* the connection breaks: the next read or write on it raises socket.error
Fault(c) ==
    /\ port[c].exists
    /\ ~port[c].closed
    /\ ~sock[c].err
    /\ sock' = [sock EXCEPT ![c].err = TRUE]
    /\ UNCHANGED <<addrVars, server, peer, pipe, outbox, backlog, port, srvVars, ctl,
                   blockedIn, appPorts, histVars>>

(***************************************************************************)
(* Calls the application makes on a port it holds.                         *)
(***************************************************************************)
\* port c is in the live-port collection
InPorts(c) == \E i \in 1..Len(ports) : ports[i] = c

\* the history of closes since the last prune, after a call on port c
NoteClose(c, before, after) ==
    IF InPorts(c) /\ ~before.closed /\ after.closed
    THEN closedSincePrune \cup {c} ELSE closedSincePrune

\* the messages a call put on the queue of a port, oldest first
Added(before, after) ==
    SubSeq(after.messages, Len(before.messages) + 1, Len(after.messages))

\* port.pending(): one pump step
AppPending(c) ==
    /\ c \in appPorts
    /\ ctl = "app"
    /\ blockedIn = "none"
    /\ port[c].blocked => IsReadable(sock[c], EofVisible(c))
    /\ LET r == pending(port[c], sock[c], EofVisible(c)) IN
        /\ port' = [port EXCEPT ![c] = r.port]
        /\ sock' = [sock EXCEPT ![c] = r.sock]
        /\ ioOnClosed' = (ioOnClosed \/ r.badio)
        /\ closedBy' = [closedBy EXCEPT
                           ![c] = IF ~port[c].closed /\ r.port.closed THEN r.fault ELSE @]
        /\ lastCall' = [NoCall EXCEPT !.op = "pending", !.conn = c,
                           !.raised = r.raised, !.wasClosed = port[c].closed,
                           !.added = Len(r.port.messages) - Len(port[c].messages),
                           !.fault = r.fault, !.rejected = r.rejected]
        /\ decoded' = [decoded EXCEPT ![c] = @ \o Added(port[c], r.port)]
    /\ UNCHANGED <<addrVars, server, peer, pipe, outbox, backlog, srvVars, ctl,
                   blockedIn,
                   appPorts, yielded, portSent, owed, sweepEof, sweepFrom, cycleLog>>
    /\ closedSincePrune' = NoteClose(c, port[c], port'[c])

\* file.write (149, 151): the text-mode file is buffered and keeps the bytes;
\* the binary-mode file has no buffer (108) and sends them at once
FileWrite(p, s, out, bytes) ==
    IF p.string_protocol
    THEN [port |-> [p EXCEPT !.wbuf = @ \o bytes], out |-> out, raised |-> "none"]
    ELSE IF s.err THEN [port |-> p, out |-> out, raised |-> "socket.error"]
    ELSE [port |-> p, out |-> out \o bytes, raised |-> "none"]

\* a flush that sends nothing
FileFlush_Nothing(p, s, out) == [port |-> p, out |-> out, raised |-> "none"]

\* file.flush (153): the buffered bytes are sent; when sending fails they
\* stay in the buffer
FileFlush(p, s, out) ==
    IF p.wbuf = <<>> THEN [port |-> p, out |-> out, raised |-> "none"]
    ELSE IF s.err THEN [port |-> p, out |-> out, raised |-> "socket.error"]
    ELSE [port |-> [p EXCEPT !.wbuf = <<>>], out |-> out \o p.wbuf, raised |-> "none"]

\* SocketPort._send (147-153): write the encoding, then flush; nothing
\* catches the error of a write or a flush, which leaves the port as it was
_send(p, s, out, m) ==
    LET w == FileWrite(p, s, out, WireOf(p.string_protocol, m))
        f == FileFlush(w.port, s, w.out)
    IN  IF w.raised # "none"
        THEN [port |-> w.port, out |-> w.out, raised |-> w.raised,
              badio |-> p.closed]
        ELSE IF f.raised # "none"
        THEN [port |-> f.port, out |-> f.out, raised |-> f.raised,
              badio |-> p.closed]
        ELSE [port |-> f.port, out |-> f.out, raised |-> "none", badio |-> p.closed]

\* BaseOutput.send: nothing is written on a closed port
send(p, s, out, m) ==
    IF p.closed THEN [port |-> p, out |-> out, raised |-> "none", badio |-> FALSE]
    ELSE _send(p, s, out, m)

\* port.send(message)
AppSend(c, m) ==
    /\ c \in appPorts
    /\ ctl = "app"
    /\ ~ThreadBlocked
    /\ TotalSent < MaxMsgs
    /\ LET r == send(port[c], sock[c], outbox[c], m) IN
        /\ outbox' = [outbox EXCEPT ![c] = r.out]
        /\ port' = [port EXCEPT ![c] = r.port]
        /\ ioOnClosed' = (ioOnClosed \/ r.badio)
        /\ lastCall' = [NoCall EXCEPT !.op = "send", !.conn = c, !.raised = r.raised,
                           !.wasClosed = port[c].closed,
                           !.added = Len(r.out) - Len(outbox[c])]
    /\ portSent' = [portSent EXCEPT ![c] = Append(@, m)]
    /\ UNCHANGED <<addrVars, server, netVars, srvVars, ctl, blockedIn, appPorts,
                   yielded, closedBy, decoded, owed, sweepEof, sweepFrom, cycleLog,
                   closedSincePrune>>

\* port.close() on a port that is not yet closed
AppClose(c) ==
    /\ ctl = "app"
    /\ ~ThreadBlocked
    /\ port[c].exists
    /\ ~port[c].closed
    /\ port' = [port EXCEPT ![c] = ClosePort(@)]
    /\ closedBy' = [closedBy EXCEPT ![c] = "app"]
    /\ UNCHANGED <<addrVars, server, netVars, outbox, srvVars, ctl, blockedIn, appPorts,
                   yielded, portSent, lastCall, ioOnClosed, decoded, owed, sweepEof,
                   sweepFrom, cycleLog>>
    /\ closedSincePrune' = NoteClose(c, port[c], port'[c])

(***************************************************************************)
(* PortServer (sockets.py 23-88).                                          *)
(***************************************************************************)
\* a prune step that never drops the oldest port
_update_ports_KeepHead(ps, pt) ==
    IF ps = <<>> THEN <<>>
    ELSE <<Head(ps)>> \o SelectSeq(Tail(ps), LAMBDA c : ~pt[c].closed)

\* a prune step that drops nothing
_update_ports_KeepAll(ps, pt) == ps

\* _update_ports: the ports that are not closed, in their order
_update_ports(ps, pt) == SelectSeq(ps, LAMBDA c : ~pt[c].closed)

\* accept() called without a block argument (49)
DefaultBlock == TRUE

BlockOf(arg) == IF arg = "default" THEN DefaultBlock ELSE FALSE

\* accept that never looks at its block argument
accept_IgnoresBlock(block, bl) == IF bl = <<>> THEN "blocked" ELSE "port"

\* accept that hands back None whenever nothing is pending
accept_NeverBlocks(block, bl) == IF bl = <<>> THEN "None" ELSE "port"

\* how accept(block) ends (59-65): None when it may not block and nothing is
\* pending; otherwise socket.accept(), which waits for a connection
accept(block, bl) ==
    IF ~block /\ bl = <<>> THEN "None"
    ELSE IF bl = <<>> THEN "blocked"
    ELSE "port"

\* a text-mode port for an accepted connection
AcceptedPort_Text == NewPort(TRUE)

\* SocketPort(host, port, conn=conn) of line 65: string_protocol is left False
AcceptedPort == NewPort(FALSE)

RECURSIVE WireLen(_)
\* bytes the binary encodings of a sequence of messages take on the wire
WireLen(ms) == IF ms = <<>> THEN 0 ELSE Len(Bin(Head(ms))) + WireLen(Tail(ms))

\* how many of the messages ms, in order, lie whole within the first n bytes
CompleteIn(ms, n) ==
    CHOOSE k \in 0..Len(ms) :
        /\ WireLen(SubSeq(ms, 1, k)) <= n
        /\ k < Len(ms) => WireLen(SubSeq(ms, 1, k + 1)) > n

\* the messages of connection c whose every byte has reached the server's socket
CompleteArrived(c) == CompleteIn(peer[c].sent, WireLen(peer[c].sent) - Len(pipe[c]))

RECURSIVE YieldedFrom(_, _)
\* the messages yielded from port c, in the order yielded
YieldedFrom(ys, c) ==
    IF ys = <<>> THEN <<>>
    ELSE IF Head(ys)[1] = c THEN <<Head(ys)[2]>> \o YieldedFrom(Tail(ys), c)
    ELSE YieldedFrom(Tail(ys), c)

\* the complete messages that have reached the socket of port c and that the
\* iteration has not yielded yet
Outstanding(c) ==
    IF CompleteArrived(c) > Len(YieldedFrom(yielded, c))
    THEN CompleteArrived(c) - Len(YieldedFrom(yielded, c))
    ELSE 0

\* deque.popleft() in iter_pending: the oldest queued message comes out first
popleft_Newest(q) == [msg |-> q[Len(q)], rest |-> SubSeq(q, 1, Len(q) - 1)]

popleft(q) == [msg |-> Head(q), rest |-> Tail(q)]

\* a sweep that ends after the first port it has served
Advance_FirstOnly == pc' = "top" /\ idx' = 0 /\ sweep' = <<>>

\* the generator moves on to the next port of the sweep, or sleeps and starts
\* the next cycle
Advance ==
    IF idx < Len(sweep)
    THEN pc' = "sweep" /\ idx' = idx + 1 /\ UNCHANGED sweep
    ELSE pc' = "top" /\ idx' = 0 /\ sweep' = <<>>

\* a loop body that prunes before it does anything else
CycleSteps_PruneFirst(connPending) ==
    IF connPending
    THEN <<"prune", "poll", "accept", "append", "sweep">>
    ELSE <<"prune", "poll", "sweep">>

\* the steps of one turn of the loop of __iter__, in program order: accept()
\* polls the listening socket (59) and, only when a connection is pending,
\* prunes (62) and takes the connection (64); the port is appended (74); then
\* comes the prune of line 75 and the sweep (78)
CycleSteps(connPending) ==
    IF connPending
    THEN <<"poll", "prune", "accept", "append", "prune", "sweep">>
    ELSE <<"poll", "prune", "sweep">>

\* a new port put at the front of the list
AppendPort_Front(ps, c) == <<c>> \o ps

\* self.ports.append(port) (74)
AppendPort(ps, c) == Append(ps, c)

\* lines 72-78 once accept has a connection c (or none: c = 0)
CycleTail(c, ps) ==
    \E port2 \in {IF c # 0 THEN [port EXCEPT ![c] = AcceptedPort] ELSE port} :
    \E appended \in {IF c # 0 THEN AppendPort(ps, c) ELSE ps} :
    \E pruned \in {_update_ports(appended, port2)} :
        /\ port' = port2
        /\ backlog' = IF c # 0 THEN Tail(backlog) ELSE backlog
        /\ ports' = pruned
        /\ IF pruned = <<>>
           THEN pc' = "top" /\ idx' = 0 /\ sweep' = <<>>
           ELSE pc' = "sweep" /\ idx' = 1 /\ sweep' = pruned
        /\ left' = 0
        /\ owed' = [d \in Conns |->
                       IF \E i \in 1..Len(pruned) : pruned[i] = d
                       THEN Outstanding(d) ELSE 0]
        /\ sweepEof' = {d \in Conns : /\ \E i \in 1..Len(pruned) : pruned[i] = d
                                       /\ d # c
                                       /\ EofVisible(d)}
        /\ closedSincePrune' = {}
        /\ sweepFrom' = Len(yielded)
        /\ cycleLog' = CycleSteps(c # 0)
        /\ server' = AfterAccept(server, c # 0)

\* one turn of the while loop of __iter__ up to the sweep (70-78)
Cycle ==
    /\ pc = "top"
    /\ ~ThreadBlocked
    /\ LET kind == accept(FALSE, backlog) IN
        /\ CASE kind = "None" -> CycleTail(0, ports) /\ UNCHANGED blockedIn
             [] kind = "port" ->
                    CycleTail(Head(backlog), _update_ports(ports, port))
                    /\ UNCHANGED blockedIn
             [] OTHER ->
                    /\ blockedIn' = "gen"
                    /\ ports' = _update_ports(ports, port)
                    /\ closedSincePrune' = {}
                    /\ UNCHANGED <<port, backlog, sweep, pc, idx, left, owed,
                                   sweepEof, sweepFrom, cycleLog,
                                   server>>
    /\ ctl' = "gen"
    /\ UNCHANGED <<addrVars, peer, pipe, sock, outbox, appPorts, yielded, portSent,
                   closedBy, lastCall, ioOnClosed, decoded>>

\* the sweep reaches a port: port.iter_pending() pumps it once, then the first
\* pending message, if any, is yielded
ServePort ==
    /\ pc = "sweep"
    /\ left = 0
    /\ ~ThreadBlocked
    /\ \E c \in {sweep[idx]} :
       \E r \in {pending(port[c], sock[c], EofVisible(c))} :
       \E n \in {Len(r.port.messages)} :
           /\ sock' = [sock EXCEPT ![c] = r.sock]
           /\ ioOnClosed' = (ioOnClosed \/ r.badio)
           /\ closedBy' = [closedBy EXCEPT
                              ![c] = IF ~port[c].closed /\ r.port.closed
                                     THEN r.fault ELSE @]
           /\ lastCall' = IF r.raised # "none"
                          THEN [NoCall EXCEPT !.op = "pending", !.raised = r.raised]
                          ELSE lastCall
           /\ decoded' = [decoded EXCEPT ![c] = @ \o Added(port[c], r.port)]
           /\ IF r.raised # "none"
              THEN /\ port' = [port EXCEPT ![c] = r.port]
                   /\ pc' = "raised"
                   /\ ctl' = "app"
                   /\ UNCHANGED <<yielded, left, idx, sweep, owed>>
              ELSE IF n = 0
              THEN /\ port' = [port EXCEPT ![c] = r.port]
                   /\ Advance
                   /\ ctl' = "gen"
                   /\ UNCHANGED <<yielded, left, owed>>
              ELSE /\ port' = [port EXCEPT ![c] = [r.port EXCEPT
                                                     !.messages = popleft(@).rest]]
                   /\ yielded' = Append(yielded, <<c, popleft(r.port.messages).msg>>)
                   /\ owed' = [owed EXCEPT ![c] = IF @ > 0 THEN @ - 1 ELSE 0]
                   /\ left' = n - 1
                   /\ ctl' = "app"
                   /\ IF n = 1 THEN Advance ELSE UNCHANGED <<pc, idx, sweep>>
    /\ UNCHANGED <<addrVars, server, peer, pipe, outbox, backlog, ports, blockedIn,
                   appPorts, portSent, sweepEof, sweepFrom, cycleLog>>
    /\ closedSincePrune' = NoteClose(sweep[idx], port[sweep[idx]], port'[sweep[idx]])

\* the consumer pulls again while the current port still has messages to yield
YieldNext ==
    /\ pc = "sweep"
    /\ left > 0
    /\ ~ThreadBlocked
    /\ LET c == sweep[idx] IN
        /\ port' = [port EXCEPT ![c].messages = popleft(@).rest]
        /\ yielded' = Append(yielded, <<c, popleft(port[c].messages).msg>>)
        /\ owed' = [owed EXCEPT ![c] = IF @ > 0 THEN @ - 1 ELSE 0]
    /\ left' = left - 1
    /\ ctl' = "app"
    /\ IF left = 1 THEN Advance ELSE UNCHANGED <<pc, idx, sweep>>
    /\ UNCHANGED <<addrVars, server, netVars, outbox, ports, blockedIn, appPorts,
                   portSent,
                   closedBy, lastCall, ioOnClosed, decoded, sweepEof, sweepFrom,
                   cycleLog, closedSincePrune>>

\* the application calls server.accept() itself, between two pulls
AppAccept(arg) ==
    /\ ctl = "app"
    /\ pc # "raised"
    /\ ~ThreadBlocked
    /\ LET kind == accept(BlockOf(arg), backlog) IN
        /\ lastCall' = [NoCall EXCEPT !.op = "accept", !.arg = arg, !.result = kind]
        /\ server' = AfterAccept(server, kind = "port")
        /\ CASE kind = "None" ->
                    UNCHANGED <<ports, port, backlog, appPorts, blockedIn,
                                closedSincePrune>>
             [] kind = "port" ->
                    /\ ports' = _update_ports(ports, port)
                    /\ closedSincePrune' = {}
                    /\ port' = [port EXCEPT ![Head(backlog)] = AcceptedPort]
                    /\ backlog' = Tail(backlog)
                    /\ appPorts' = appPorts \cup {Head(backlog)}
                    /\ UNCHANGED blockedIn
             [] OTHER ->
                    /\ ports' = _update_ports(ports, port)
                    /\ closedSincePrune' = {}
                    /\ blockedIn' = "app"
                    /\ UNCHANGED <<port, backlog, appPorts>>
    /\ UNCHANGED <<addrVars, peer, pipe, sock, outbox, sweep, pc, idx, left, ctl,
                   yielded, portSent, closedBy, ioOnClosed, decoded, owed, sweepEof,
                   sweepFrom, cycleLog>>

\* a connection arrives while accept() waits in socket.accept() (64-65)
AcceptWake ==
    /\ blockedIn # "none"
    /\ backlog # <<>>
    /\ blockedIn' = "none"
    /\ lastCall' = [lastCall EXCEPT !.result = "port"]
    /\ IF blockedIn = "app"
       THEN /\ port' = [port EXCEPT ![Head(backlog)] = AcceptedPort]
            /\ backlog' = Tail(backlog)
            /\ appPorts' = appPorts \cup {Head(backlog)}
            /\ server' = AfterAccept(server, TRUE)
            /\ UNCHANGED <<srvVars, ctl, owed, sweepEof, sweepFrom, cycleLog,
                           closedSincePrune>>
       ELSE /\ CycleTail(Head(backlog), ports)
            /\ UNCHANGED <<appPorts, ctl>>
    /\ UNCHANGED <<addrVars, peer, pipe, sock, outbox, yielded, portSent, closedBy,
                   ioOnClosed, decoded>>

\* the application leaves the with-block of the server (83-88)
AppExit ==
    /\ ctl = "app"
    /\ pc # "raised"
    /\ ~ThreadBlocked
    /\ ~server.exited
    /\ server' = ServerExit(server)
    /\ UNCHANGED <<addrVars, netVars, outbox, port, srvVars, ctl, blockedIn,
                   appPorts, histVars>>

\* the application closes a port of the server's collection between two pulls
AppCloseServed(c) ==
    /\ InPorts(c)
    /\ AppClose(c)

(***************************************************************************)
(* The specifications.                                                     *)
(***************************************************************************)
\* the caller types one more character of the address (forward_ports.py 13)
TypeChar ==
    /\ addrResult = NoResult
    /\ Len(address) < MaxAddrLen
    /\ \E c \in AddrChars : address' = Append(address, c)
    /\ UNCHANGED <<addrResult, server, netVars, srvVars, histVars, outbox, port, ctl,
                   blockedIn, appPorts>>

ParseAddress ==
    /\ addrResult = NoResult
    /\ addrResult' = parse_address(address)
    /\ UNCHANGED <<address, server, netVars, srvVars, histVars, outbox, port, ctl,
                   blockedIn, appPorts>>

InitAddr ==
    /\ address = <<>>
    /\ addrResult = NoResult
    /\ InitNet
    /\ InitServer

NextAddr == TypeChar \/ ParseAddress

SpecAddr == InitAddr /\ [][NextAddr]_vars

\* a server that listens, with no connection yet
Init ==
    /\ address = <<>>
    /\ addrResult = NoResult
    /\ InitNet
    /\ InitServer

\* a server whose application only iterates over it, with clients that
\* connect, send and hang up
Next ==
    \/ \E c \in Conns : Connect(c)
    \/ \E c \in Conns : PeerSend(c, ClientMsg(c, Len(peer[c].sent) + 1))
    \/ \E c \in Conns : Deliver(c)
    \/ \E c \in Conns : PeerClose(c)
    \/ Cycle
    \/ ServePort
    \/ YieldNext
    \/ \E c \in Conns : AppCloseServed(c)

Spec == Init /\ [][Next]_vars

\* the same server with a consumer that does nothing but pull
NextLive ==
    \/ \E c \in Conns : Connect(c)
    \/ \E c \in Conns : PeerSend(c, ClientMsg(c, Len(peer[c].sent) + 1))
    \/ \E c \in Conns : Deliver(c)
    \/ \E c \in Conns : PeerClose(c)
    \/ Cycle
    \/ ServePort
    \/ YieldNext

\* the consumer keeps pulling: the generator takes its next step whenever it
\* has one, and sleep() returns
Pulling == WF_vars(Cycle) /\ WF_vars(ServePort) /\ WF_vars(YieldNext)

SpecLive == Init /\ [][NextLive]_vars /\ Pulling

\* a server whose application also calls accept() itself, with clients that
\* connect, hang up or lose their connection
NextAccept ==
    \/ \E c \in Conns : Connect(c)
    \/ \E c \in Conns : PeerClose(c)
    \/ \E c \in Conns : Fault(c)
    \/ Cycle
    \/ ServePort
    \/ \E arg \in {"default", "noblock"} : AppAccept(arg)
    \/ AcceptWake
    \/ \E c \in Conns : AppClose(c)
    \/ \E c \in appPorts : AppSend(c, ClientMsg(c, Len(portSent[c]) + 1))
    \/ AppExit

SpecAccept == Init /\ [][NextAccept]_vars

\* one port the application opened itself with connect(), in either wire format
InitPort ==
    /\ address = <<>>
    /\ addrResult = NoResult
    /\ peer = [c \in Conns |-> [state |-> IF c = 1 THEN "open" ELSE "idle", sent |-> <<>>]]
    /\ pipe = [c \in Conns |-> <<>>]
    /\ sock = [c \in Conns |-> [avail |-> <<>>, err |-> FALSE]]
    /\ outbox = [c \in Conns |-> <<>>]
    /\ backlog = <<>>
    /\ \E text \in BOOLEAN :
          port = [c \in Conns |-> IF c = 1 THEN NewPort(text) ELSE NoPort]
    /\ ports = <<>>
    /\ sweep = <<>>
    /\ pc = "off"
    /\ idx = 0
    /\ left = 0
    /\ ctl = "app"
    /\ blockedIn = "none"
    /\ appPorts = {1}
    /\ yielded = <<>>
    /\ portSent = [c \in Conns |-> <<>>]
    /\ closedBy = [c \in Conns |-> "none"]
    /\ lastCall = NoCall
    /\ ioOnClosed = FALSE
    /\ decoded = [c \in Conns |-> <<>>]
    /\ owed = [c \in Conns |-> 0]
    /\ sweepEof = {}
    /\ closedSincePrune = {}
    /\ sweepFrom = 0
    /\ cycleLog = <<>>
    /\ server = NewServer

NextPort ==
    \/ \E c \in appPorts, m \in AllMsgs : PeerSend(c, m)
    \/ \E c \in appPorts : PeerSendGarbage(c)
    \/ \E c \in appPorts : Deliver(c)
    \/ \E c \in appPorts : PeerClose(c)
    \/ \E c \in appPorts : Fault(c)
    \/ \E c \in appPorts : AppPending(c)
    \/ \E c \in appPorts, m \in AllMsgs : AppSend(c, m)
    \/ \E c \in appPorts : AppClose(c)

SpecPort == InitPort /\ [][NextPort]_vars

(***************************************************************************)
(* C1: parse_address returns (the exact substring before the colon, the    *)
(* integer port) when the string has exactly one colon, the segment after  *)
(* it is an integer and 0 < port < 65536; every other string (a number of  *)
(* colons other than 1, a non-integer segment, a port <= 0 or >= 65536)    *)
(* fails with the parser's format error (ValueError) and returns nothing.  *)
(***************************************************************************)
ColonPositions(s) == {i \in 1..Len(s) : s[i] = ":"}

\* s reads as an integer: blanks, an optional sign, one or more digits, blanks
IsIntegerText(s) ==
    \E i, j \in 1..Len(s) :
        /\ i <= j
        /\ \A k \in 1..Len(s) : (k < i \/ k > j) => s[k] = " "
        /\ s[j] \in Digits
        /\ \A k \in (i + 1)..j : s[k] \in Digits
        /\ s[i] \in Digits \cup {"-", "+"}

RECURSIVE PlaceSum(_, _)
PlaceSum(s, k) ==
    IF k > Len(s) THEN 0
    ELSE (IF s[k] \in Digits THEN DigitVal(s[k]) * 10^(Len(s) - k) ELSE 0)
         + PlaceSum(s, k + 1)

\* the integer an integer text denotes
IntegerOf(s) ==
    LET core == SelectSeq(s, LAMBDA c : c # " ") IN
    IF core[1] = "-" THEN 0 - PlaceSum(core, 1) ELSE PlaceSum(core, 1)

C1_ParseAddress ==
    addrResult # NoResult =>
        LET cs == ColonPositions(address) IN
        IF Cardinality(cs) = 1
        THEN LET i == CHOOSE k \in cs : TRUE
                 seg == SubSeq(address, i + 1, Len(address))
             IN  IF IsIntegerText(seg) /\ 0 < IntegerOf(seg) /\ IntegerOf(seg) < 65536
                 THEN /\ addrResult.tag = "ok"
                      /\ addrResult.host = SubSeq(address, 1, i - 1)
                      /\ addrResult.port = IntegerOf(seg)
                 ELSE addrResult = ValueError
        ELSE addrResult = ValueError

\* a host and an in-range port were returned
C1_Witness ==
    /\ addrResult.tag = "ok"
    /\ addrResult.host # <<>>
    /\ addrResult.port > 9

(***************************************************************************)
(* C2: end-to-end delivery through the combined iteration.  For every      *)
(* binary client of the server, the messages the iteration has yielded     *)
(* from its port together with those still queued on the port are exactly  *)
(* the messages the port has read in full, each once: none twice, none     *)
(* missing.  And once a sweep is over, every complete message that had     *)
(* reached an accepted port's socket when the sweep began has been yielded,*)
(* unless the application closed that port itself.                         *)
(***************************************************************************)
\* how often message m occurs in the sequence ms
Count(ms, m) == Cardinality({i \in 1..Len(ms) : ms[i] = m})

\* the messages of connection c whose every byte the port has read
ReadInFull(c) ==
    SubSeq(peer[c].sent, 1,
           CompleteIn(peer[c].sent,
                      WireLen(peer[c].sent) - Len(pipe[c]) - Len(sock[c].avail)))

C2_EndToEnd ==
    \A c \in Conns :
        /\ \A m \in AllMsgs :
              Count(YieldedFrom(yielded, c), m) + Count(port[c].messages, m)
                  = Count(ReadInFull(c), m)
        /\ (pc = "top" /\ closedBy[c] # "app") => owed[c] = 0

\* a sweep over two clients' ports, each with a message that had arrived when
\* the sweep began: the first client's message is yielded, the second is next
C2_Witness ==
    /\ pc = "sweep"
    /\ Len(sweep) = 2 /\ idx = 2 /\ left = 0
    /\ owed[sweep[1]] = 0 /\ owed[sweep[2]] = 1
    /\ Len(yielded) = 1
    /\ yielded[1] = <<sweep[1], peer[sweep[1]].sent[1]>>

(***************************************************************************)
(* C3: per-port FIFO.  For every accepted port, the messages yielded from  *)
(* it so far, followed by the messages still queued on it, are the         *)
(* messages decoded from it in the order they were decoded: no message is  *)
(* yielded ahead of one decoded before it, whatever other ports, accepts   *)
(* and prunes come in between.                                             *)
(***************************************************************************)
C3_PerPortFifo ==
    \A c \in Conns : YieldedFrom(yielded, c) \o port[c].messages = decoded[c]

\* two different messages decoded from one port, both yielded since
C3_Witness ==
    \E c \in Conns :
        /\ Len(decoded[c]) = 2
        /\ decoded[c][1] # decoded[c][2]
        /\ YieldedFrom(yielded, c) = decoded[c]
        /\ port[c].messages = <<>>

(***************************************************************************)
(* C4: binary framing does not depend on chunking.  Whatever way the bytes *)
(* of N valid binary messages were split over arrivals and pump steps,     *)
(* once all of them have been pumped the pending queue of a binary-mode    *)
(* port holds exactly those N messages in their original order.            *)
(***************************************************************************)
AllPumped(c) == pipe[c] = <<>> /\ sock[c].avail = <<>> /\ port[c].rbuf = <<>>

C4_BinaryFraming ==
    \A c \in appPorts :
        (~port[c].string_protocol /\ AllPumped(c)) => port[c].messages = peer[c].sent

\* two messages decoded by different pump steps, the last step completing one
C4_Witness ==
    /\ ~port[1].string_protocol
    /\ AllPumped(1)
    /\ Len(peer[1].sent) = 2
    /\ port[1].messages = peer[1].sent
    /\ lastCall.op = "pending"
    /\ lastCall.added = 1

(***************************************************************************)
(* C5: text framing.  When n newline-terminated lines, each the text of a  *)
(* valid message, have all arrived on the connection of a text-mode port,  *)
(* a pump step leaves exactly those n messages decoded, in order: nothing  *)
(* stays undecoded in a read buffer once the pump step has returned.       *)
(***************************************************************************)
C5_TextFraming ==
    \A c \in appPorts :
        ( /\ port[c].string_protocol
          /\ lastCall.op = "pending" /\ lastCall.conn = c /\ lastCall.raised = "none"
          /\ ~lastCall.wasClosed
          /\ ~port[c].blocked
          /\ \A i \in 1..Len(peer[c].sent) : peer[c].sent[i] \in AllMsgs
          /\ pipe[c] = <<>> /\ sock[c].avail = <<>> /\ ~sock[c].err )
        => port[c].messages = peer[c].sent

(***************************************************************************)
(* C6: disconnect handling.  As stated: once a sweep that began after a    *)
(* client had closed its connection is over, the client's port is no       *)
(* longer in the live-port collection.                                     *)
(***************************************************************************)
C6_NextSweepPrunes ==
    pc = "top" => \A c \in sweepEof : ~InPorts(c)

(***************************************************************************)
(* C6, as the code has it: the sweep that follows a client's close reads   *)
(* the end of the stream and closes the port, without raising anything to  *)
(* the consumer; the port stays in the live-port collection until the      *)
(* prune step of the following cycle, which leaves no closed port in the   *)
(* collection that the new sweep goes over; and from a closed port that no *)
(* sweep is going over nothing is yielded any more.                        *)
(***************************************************************************)
C6_DisconnectHandling ==
    /\ [](/\ pc # "raised"
          /\ pc = "top" => \A c \in sweepEof : port[c].closed)
    /\ [][(pc = "top" /\ (pc' = "sweep" \/ ports' # ports))
              => /\ \A i \in 1..Len(ports') : ~port'[ports'[i]].closed
                 /\ pc' = "sweep" => sweep' = ports']_vars
    /\ [][\A c \in Conns :
              (port[c].closed /\ ~\E i \in 1..Len(sweep) : sweep[i] = c)
                  => YieldedFrom(yielded', c) = YieldedFrom(yielded, c)]_vars

\* a client sent a message and hung up; its port yielded the message, was
\* closed at the end of the stream and has been pruned since
C6_Witness ==
    \E c \in Conns :
        /\ closedBy[c] = "eof"
        /\ ~InPorts(c)
        /\ YieldedFrom(yielded, c) # <<>>
        /\ pc = "sweep"

(***************************************************************************)
(* C7: a closed port is inert.  No read, readiness poll or write is ever   *)
(* attempted on the connection of a port whose closed flag is true, and a  *)
(* pump step on a closed port adds no message and raises nothing, however  *)
(* the port came to be closed (explicitly, end of stream, I/O error).      *)
(***************************************************************************)
C7_ClosedInert ==
    /\ ~ioOnClosed
    /\ (lastCall.op = "pending" /\ lastCall.wasClosed)
            => (lastCall.raised = "none" /\ lastCall.added = 0)
    /\ (lastCall.op = "send" /\ lastCall.wasClosed) => lastCall.added = 0

\* a pump step on a port that an I/O error had closed
C7_Witness ==
    /\ lastCall.op = "pending"
    /\ lastCall.wasClosed
    /\ closedBy[lastCall.conn] = "error"

(***************************************************************************)
(* C8: in text mode a line the string decoder rejects makes the pump step  *)
(* fail with a decode error its caller sees: whenever a pump step takes    *)
(* such a line off the connection it raises the decoder's error and does   *)
(* not close the port.                                                     *)
(***************************************************************************)
\* rejected lines written by the remote end and not yet handed to the decoder
GarbagePending(c) ==
    LET waiting == pipe[c] \o sock[c].avail \o port[c].rbuf
    IN  Cardinality({i \in 1..Len(waiting) : waiting[i] = GarbageLine[1]})

C8_DecodeErrorVisible ==
    [][\A c \in Conns :
          GarbagePending(c)' < GarbagePending(c)
              => /\ lastCall'.op = "pending"
                 /\ lastCall'.raised = "ParseError"
                 /\ ~port'[c].closed]_vars

\* a pump step raised the decoder's error on the rejected line
C8_Witness ==
    /\ lastCall.op = "pending"
    /\ lastCall.raised = "ParseError"
    /\ \E i \in 1..Len(peer[1].sent) : peer[1].sent[i] = GarbageLine
    /\ GarbagePending(1) = 0
    /\ ~port[1].closed

(***************************************************************************)
(* C9: connection-level read faults are absorbed into the closed state in  *)
(* either wire format: a pump step whose read returns end of stream or     *)
(* raises an I/O error sets the closed flag, stops, and raises nothing.    *)
(***************************************************************************)
C9_ReadFaultAbsorbed ==
    (lastCall.op = "pending" /\ lastCall.fault \in {"eof", "error"})
        => (lastCall.raised = "none" /\ port[lastCall.conn].closed)

(***************************************************************************)
(* C10: accept, as stated: called without choosing a blocking mode, it     *)
(* returns at once, whether or not a connection is pending.                *)
(***************************************************************************)
C10_NonBlockingByDefault ==
    (lastCall.op = "accept" /\ lastCall.arg = "default")
        => (blockedIn = "none" /\ lastCall.result # "blocked")

(***************************************************************************)
(* C10, as the code has it: accept blocks by default; called without a     *)
(* block argument while no connection is pending it waits in               *)
(* socket.accept().  Called with block=False, as the combined iteration    *)
(* calls it, it polls the listening socket with zero timeout and returns   *)
(* None at once when no connection is pending.  Whenever a connection is   *)
(* pending, either call accepts the oldest one and returns a new port for  *)
(* it, open and in binary mode.                                            *)
(***************************************************************************)
Accepted(c) ==
    /\ backlog' = Tail(backlog)
    /\ port'[c].exists
    /\ ~port'[c].closed
    /\ ~port'[c].string_protocol
    /\ port'[c].messages = <<>>

C10_AcceptBlocking ==
    /\ [][(lastCall' # lastCall /\ lastCall'.op = "accept" /\ blockedIn = "none")
              => IF backlog # <<>>
                 THEN /\ lastCall'.result = "port"
                      /\ blockedIn' = "none"
                      /\ Accepted(Head(backlog))
                      /\ appPorts' = appPorts \cup {Head(backlog)}
                 ELSE /\ UNCHANGED <<backlog, port, appPorts>>
                      /\ IF lastCall'.arg = "noblock"
                         THEN lastCall'.result = "None" /\ blockedIn' = "none"
                         ELSE lastCall'.result = "blocked" /\ blockedIn' = "app"]_vars
    /\ [](blockedIn # "gen")
    /\ [][(pc = "top" /\ pc' = "sweep" /\ backlog # <<>>)
              => /\ Accepted(Head(backlog))
                 /\ ports' # <<>>
                 /\ ports'[Len(ports')] = Head(backlog)]_vars

\* a call with block=False found a connection pending and returned its port
C10_Witness ==
    /\ lastCall.op = "accept"
    /\ lastCall.arg = "noblock"
    /\ lastCall.result = "port"
    /\ appPorts # {}

(***************************************************************************)
(* C11: the live-port collection.  A closed port is in the collection only *)
(* if it was closed after the last prune, by a sweep or by the consumer    *)
(* between two yields: the prune of the next cycle takes it out, and no    *)
(* closed port stays in the collection across a prune.                     *)
(***************************************************************************)
C11_LivePorts ==
    \A c \in Conns : (InPorts(c) /\ port[c].closed) => c \in closedSincePrune

\* the consumer closed a served port between two yields and the prune of the
\* next cycle has taken it out of the collection
C11_Witness ==
    \E c \in Conns :
        /\ closedBy[c] = "app"
        /\ ~InPorts(c)
        /\ closedSincePrune = {}
        /\ pc = "sweep"

(***************************************************************************)
(* C12: server lifecycle.  The server starts listening; once its           *)
(* with-block is left the listening socket is closed and no connection is  *)
(* accepted any more, and leaving the block closes none of the accepted    *)
(* ports.                                                                  *)
(***************************************************************************)
C12_ServerLifecycle ==
    /\ ~server.exited => server.socketOpen
    /\ server.exited => (~server.socketOpen /\ ~server.acceptedAfterExit)
    /\ \A c \in Conns : closedBy[c] \in {"none", "eof", "error", "app"}

(***************************************************************************)
(* C13: accept order is service order.  Connections are accepted in the    *)
(* order they arrived, so a port accepted earlier has the smaller          *)
(* connection number.  The live-port collection is at all times a list of  *)
(* accepted ports without duplicates, in accept order; and the messages    *)
(* yielded since the last sweep began come port by port in that order: no  *)
(* message of an earlier-accepted port after one of a later-accepted port. *)
(***************************************************************************)
C13_AcceptOrder ==
    /\ \A i \in 1..Len(ports) : port[ports[i]].exists
    /\ \A i, j \in 1..Len(ports) : i < j => ports[i] < ports[j]
    /\ \A c \in Conns, k \in 1..Len(backlog) : port[c].exists => c < backlog[k]
    /\ \A i, j \in (sweepFrom + 1)..Len(yielded) :
          i < j => yielded[i][1] <= yielded[j][1]

\* one sweep yielded a message of the port accepted first and then a message
\* of the port accepted second
C13_Witness ==
    /\ Len(ports) = 2
    /\ Len(yielded) = sweepFrom + 2
    /\ yielded[sweepFrom + 1][1] = ports[1]
    /\ yielded[sweepFrom + 2][1] = ports[2]

C15_PumpNeverBlocks ==
    \A c \in Conns : ~port[c].blocked

\* ---------------------------------------------------------------------------
\* C16: a send whose write or flush fails with an I/O error leaves the port
\* closed.
C16_SendErrorCloses ==
    (lastCall.op = "send" /\ lastCall.raised = "socket.error")
        => port[lastCall.conn].closed

\* ---------------------------------------------------------------------------
\* the encodings of a sequence of messages, one after the other
RECURSIVE WireAll(_, _)
WireAll(sp, ms) ==
    IF ms = <<>> THEN <<>>
    ELSE WireOf(sp, Head(ms)) \o WireAll(sp, Tail(ms))

\* C17: when a send call on an open port returns, the whole encoding of its
\* message has been handed to the connection and none of it is left in the
\* write buffer; the connection carries the encodings of the messages sent,
\* whole and in the order of the calls.
C17_DirectOrderedWrite ==
    \A c \in appPorts :
        /\ \E k \in 0..Len(portSent[c]) :
              /\ outbox[c] = WireAll(port[c].string_protocol, SubSeq(portSent[c], 1, k))
              /\ (~port[c].closed /\ ~sock[c].err) => k = Len(portSent[c])
        /\ (/\ lastCall.op = "send" /\ lastCall.conn = c
            /\ lastCall.raised = "none" /\ ~lastCall.wasClosed)
              => /\ port[c].wbuf = <<>>
                 /\ lastCall.added
                      = Len(WireOf(port[c].string_protocol,
                                   portSent[c][Len(portSent[c])]))

C17_Witness ==
    \E c \in appPorts :
        /\ port[c].string_protocol
        /\ Len(portSent[c]) = 2
        /\ portSent[c][1] # portSent[c][2]
        /\ lastCall.op = "send" /\ lastCall.raised = "none" /\ ~lastCall.wasClosed
        /\ outbox[c] = WireAll(TRUE, portSent[c])
\* ---------------------------------------------------------------------------
\* C18: the closed flag of a port is false when the port is constructed and,
\* once true, stays true under every step; a port enters the live-port
\* collection only in the step that constructs it, so a port that was removed
\* from the collection is never in it again.
C18_ClosedMonotonic ==
    [][\A c \in Conns :
          /\ port[c].closed => port'[c].closed
          /\ port[c].exists => port'[c].exists
          /\ (~port[c].exists /\ port'[c].exists) => ~port'[c].closed
          /\ (~InPorts(c) /\ InPorts(c)') => ~port[c].exists]_vars

C18_Witness ==
    \E c, d \in Conns :
        /\ c # d
        /\ port[c].closed /\ closedBy[c] = "eof" /\ ~InPorts(c)
        /\ d \in appPorts /\ port[d].closed
        /\ lastCall.op = "send" /\ lastCall.conn = d /\ lastCall.wasClosed
\* ---------------------------------------------------------------------------
\* C20: no loss at disconnect.  When a pump step of an accepted port has read
\* the end of the stream, every message its client sent has been decoded and
\* is either yielded already or still in the port's queue, which the close
\* left in place; and once the port has been pruned from the live-port
\* collection, all of them have been yielded.
C20_NoLossAtDisconnect ==
    \A c \in Conns :
        closedBy[c] = "eof"
            => /\ YieldedFrom(yielded, c) \o port[c].messages = peer[c].sent
               /\ ~InPorts(c)
                    => /\ port[c].messages = <<>>
                       /\ YieldedFrom(yielded, c) = peer[c].sent

\* a client sent two messages and hung up; one pump step read both and the
\* end of the stream, and both were yielded in that sweep, the port still
\* being in the collection
C20_Witness ==
    \E c \in Conns :
        /\ closedBy[c] = "eof" /\ c \in closedSincePrune /\ InPorts(c)
        /\ Len(peer[c].sent) = 2
        /\ Len(yielded) = sweepFrom + 2
        /\ yielded[sweepFrom + 1] = <<c, peer[c].sent[1]>>
        /\ yielded[sweepFrom + 2] = <<c, peer[c].sent[2]>>
\* ---------------------------------------------------------------------------
\* connection c waits at the listening socket
Pending(c) == \E i \in 1..Len(backlog) : backlog[i] = c

\* no sweep is under way, no connection waits at the listening socket, and
\* every message that has arrived whole at a socket has been yielded
Quiet ==
    /\ pc # "sweep"
    /\ \A c \in Conns : ~Pending(c) /\ Outstanding(c) = 0

\* C19: progress of the combined iteration.  With a consumer that keeps
\* pulling and clients that send finitely many bytes, the iteration comes
\* again and again to a point where no sweep is under way, no connection
\* waits at the listening socket and every message that arrived whole has
\* been yielded: so every sweep ends, every waiting connection is taken, and
\* every arrived message is yielded, whatever arrives on the other ports and
\* at the listening socket.  A step takes at most one connection from the
\* listening socket and adds at most one port to the live-port collection,
\* and a connection that leaves the listening socket is in the collection.
C19_Progress ==
    /\ []<>Quiet
    /\ [][/\ Len(backlog') >= Len(backlog) - 1
          /\ Len(ports') <= Len(ports) + 1
          /\ \A c \in Conns : (Pending(c) /\ ~Pending(c)') => InPorts(c)']_vars

\* the second client's connection is in the collection behind the first
\* one's, and a message from each has been yielded
C19_Witness ==
    /\ Len(ports) = 2
    /\ \A i \in 1..2 : YieldedFrom(yielded, ports[i]) # <<>>
====
